---- MODULE Spec2Model ----
(***************************************************************************)
(* Model of the survey answer normalizer and flat export builder of        *)
(* server/apps/survey/models.py: Respondant.save, update_csv_row,          *)
(* generate_flat_dict, Response.save, Response.save_related and the        *)
(* post_save handler save_related.                                         *)
(*                                                                         *)
(* Conventions.  A text is a sequence of atoms (one-character strings, or  *)
(* one atom standing for a formatted piece such as a number).  A decoded   *)
(* JSON value is a record with a kind field k.  Decimals are kept in       *)
(* tenths of the last decimal place of their column, so that the rounding  *)
(* of the column is something the model computes.  Every write is          *)
(* committed when it is made (no enclosing transaction): an exception      *)
(* leaves the rows written before it.                                      *)
(***************************************************************************)
EXTENDS Integers, Sequences, FiniteSets, TLC

VARIABLES
    respondant,    \* the Respondant row and whether it is stored
    json_data,     \* csv_row.json_data of the Respondant's CSVRow
    responses,     \* Response rows, a sequence indexed by id
    multianswers,  \* MultiAnswer rows
    gridanswers,   \* GridAnswer rows
    locations,     \* Location rows
    locanswers,    \* LocationAnswer rows
    nextLoc,       \* next Location id
    normLog,       \* per Response: the saves (by number) that ran save_related
    saveCount,     \* per Response: number of Response.save calls so far
    last           \* the last operation of a caller and its outcome

vars == <<respondant, json_data, responses, multianswers, gridanswers,
          locations, locanswers, nextLoc, normLog, saveCount, last>>

(***************************************************************************)
(* Bounds of the model.                                                    *)
(***************************************************************************)
MaxResponses == 2
MaxSaves == 3
MaxFlattenCalls == 2
MaxNormalized == 1
MaxRenormalized == 2
MaxPasses == 3

(***************************************************************************)
(* Texts.                                                                  *)
(***************************************************************************)
IsSpace(c) == c = " "

RECURSIVE LStrip(_)
LStrip(s) == IF s # <<>> /\ IsSpace(Head(s)) THEN LStrip(Tail(s)) ELSE s

RECURSIVE RStrip(_)
RStrip(s) ==
    IF s # <<>> /\ IsSpace(s[Len(s)]) THEN RStrip(SubSeq(s, 1, Len(s) - 1)) ELSE s

\* unicode.strip()
Strip(s) == RStrip(LStrip(s))

\* sep.join(parts)
RECURSIVE Join(_, _)
Join(sep, parts) ==
    IF parts = <<>> THEN <<>>
    ELSE IF Len(parts) = 1 THEN parts[1]
    ELSE parts[1] \o sep \o Join(sep, Tail(parts))

CommaSpace == <<",", " ">>

(***************************************************************************)
(* Decoded JSON values / Python values.                                    *)
(***************************************************************************)
Absent == <<"<absent>">>          \* a key that the object does not carry

JNull == [k |-> "null"]
JBool(b) == [k |-> "bool", b |-> b]
\* a number w + f / 10^fd; py is its Python type
JInt(w) == [k |-> "num", py |-> "int", w |-> w, f |-> 0, fd |-> 0]
JFloat(w, f, fd) == [k |-> "num", py |-> "float", w |-> w, f |-> f, fd |-> fd]
JStr(s) == [k |-> "str", s |-> s]
\* a Python string that holds JSON text which decodes to v
JText(v) == [k |-> "jsontext", of |-> v]
JObj(name, text, label) == [k |-> "obj", name |-> name, text |-> text, label |-> label]
JList(items) == [k |-> "list", items |-> items]
JPoint(lat, lng, answers) == [k |-> "point", lat |-> lat, lng |-> lng, answers |-> answers]
JRow(label, text, cells) == [k |-> "row", label |-> label, text |-> text, cells |-> cells]
EmptyRaw == [k |-> "empty"]       \* answer_raw '' or None

IsPyString(v) == v.k \in {"str", "jsontext"}

\* simplejson.loads(x): x must be a string holding JSON text
Loads(x) ==
    IF x.k = "jsontext" THEN [err |-> "none", v |-> x.of]
    ELSE IF x.k = "str" THEN [err |-> "ValueError", v |-> JNull]
    ELSE [err |-> "TypeError", v |-> JNull]

\* Python truthiness of dict.get(key) for a text-valued key
Truthy(s) == s # Absent /\ s # <<>>

(***************************************************************************)
(* Column conversions (the field declarations of the models).              *)
(***************************************************************************)
RECURSIVE Pow10(_)
Pow10(n) == IF n = 0 THEN 1 ELSE 10 * Pow10(n - 1)

\* DecimalField(max_digits=10, decimal_places=2): Response.answer_number and
\* GridAnswer.answer_number
NumberMaxDigits == 10
NumberDecimalPlaces == 2
\* DecimalField(max_digits=10, decimal_places=7): Location.lat and Location.lng
LatLngMaxDigits == 10
LatLngDecimalPlaces == 7

DNull == [k |-> "null"]
Dec(w, c, places) == [k |-> "dec", w |-> w, c |-> c, places |-> places]

\* a numeric value v = w + f / 10^fd
Num(py, w, f, fd) == [k |-> "num", py |-> py, w |-> w, f |-> f, fd |-> fd]

\* ROUND_HALF_EVEN of f / 10^drop
RoundHalfEven(f, drop) ==
    LET unit == Pow10(drop)
        q == f \div unit
        r == f % unit
    IN  IF 2 * r > unit \/ (2 * r = unit /\ q % 2 = 1) THEN q + 1 ELSE q

\* a quantize that drops the extra decimals instead of rounding them
QuantizeTruncating(v, digits, places) ==
    LET c == IF v.fd <= places THEN v.f * Pow10(places - v.fd)
             ELSE v.f \div Pow10(v.fd - places)
    IN  IF v.w >= Pow10(digits - places)
        THEN [err |-> "InvalidOperation", d |-> DNull]
        ELSE [err |-> "none", d |-> Dec(v.w, c, places)]

\* the decimal of whole part w0 and rounded coefficient c0 (which may have
\* reached 10^places): InvalidOperation when it needs more than `digits`
\* digits
Carried(w0, c0, digits, places) ==
    LET carry == IF c0 >= Pow10(places) THEN 1 ELSE 0
    IN  IF w0 + carry >= Pow10(digits - places)
        THEN [err |-> "InvalidOperation", d |-> DNull]
        ELSE [err |-> "none", d |-> Dec(w0 + carry, c0 - carry * Pow10(places), places)]

\* Decimal.quantize to `places` decimal places within `digits` digits
Quantize(v, digits, places) ==
    Carried(v.w, IF v.fd <= places THEN v.f * Pow10(places - v.fd)
                 ELSE RoundHalfEven(v.f, v.fd - places),
            digits, places)

IsDigit(a) == a \in {"0", "1", "2", "3", "4", "5", "6", "7", "8", "9"}
DigitVal(a) ==
    CASE a = "0" -> 0 [] a = "1" -> 1 [] a = "2" -> 2 [] a = "3" -> 3 [] a = "4" -> 4
      [] a = "5" -> 5 [] a = "6" -> 6 [] a = "7" -> 7 [] a = "8" -> 8 [] OTHER -> 9

IsDigits(s) == s # <<>> /\ \A i \in 1..Len(s) : IsDigit(s[i])

RECURSIVE DigitsVal(_)
DigitsVal(s) ==
    IF s = <<>> THEN 0 ELSE 10 * DigitsVal(SubSeq(s, 1, Len(s) - 1)) + DigitVal(s[Len(s)])

\* DecimalField.get_db_prep_save: decimal.Decimal(value), then quantize.
\* Decimal(True) is Decimal(1); a text that is no number is a ValidationError;
\* a list or dict is a TypeError.
ToDecimal(v, digits, places) ==
    CASE v.k = "null" -> [err |-> "none", d |-> DNull]
      [] v.k = "num"  -> Quantize(v, digits, places)
      [] v.k = "bool" -> Quantize(Num("int", IF v.b THEN 1 ELSE 0, 0, 0), digits, places)
      [] v.k = "str"  -> IF IsDigits(v.s)
                         THEN Quantize(Num("int", DigitsVal(v.s), 0, 0), digits, places)
                         ELSE [err |-> "ValidationError", d |-> DNull]
      [] v.k = "jsontext" -> [err |-> "ValidationError", d |-> DNull]
      [] OTHER -> [err |-> "TypeError", d |-> DNull]

RECURSIVE Digits(_, _)
Digits(n, width) ==
    IF width = 0 THEN <<>> ELSE Digits(n \div 10, width - 1) \o <<ToString(n % 10)>>

\* str() of a Python int or float
NumText(v) ==
    IF v.py = "int" THEN <<ToString(v.w)>>
    ELSE <<ToString(v.w), ".">> \o Digits(v.f, v.fd)

\* str() of a Decimal read back from its column; str(None) is 'None'
DecimalText(d) ==
    IF d.k = "null" THEN <<"None">>
    ELSE <<ToString(d.w), ".">> \o Digits(d.c, d.places)

\* TextField / CharField get_prep_value: None stays NULL, a string is stored
\* as it is, anything else is stored as its unicode() text
ToText(v) ==
    CASE v.k = "null" -> JNull
      [] v.k = "str" -> v
      [] v.k = "jsontext" -> v
      [] v.k = "num" -> JStr(NumText(v))
      [] v.k = "bool" -> JStr(IF v.b THEN <<"True">> ELSE <<"False">>)
      [] OTHER -> JStr(<<ToString(v)>>)

\* "%s" % v
Fmt(v) ==
    CASE v.k = "str" -> v.s
      [] v.k = "num" -> NumText(v)
      [] OTHER -> <<ToString(v)>>

\* datetime.strptime(value, '%m/%d/%Y')
IsDateText(s) == Len(s) = 5 /\ s[2] = "/" /\ s[4] = "/" /\ IsDigits(<<s[1], s[3], s[5]>>)
Strptime(v) ==
    IF v.k # "str" THEN [err |-> "TypeError", d |-> DNull]
    ELSE IF ~IsDateText(v.s) THEN [err |-> "ValueError", d |-> DNull]
    ELSE [err |-> "none", d |-> [k |-> "date", m |-> v.s[1], d |-> v.s[3], y |-> v.s[5]]]

\* answer_date.strftime('%m/%d/%Y')
Strftime(d) == <<d.m, "/", d.d, "/", d.y>>

(***************************************************************************)
(* The stored state as one record, so that the methods compose.            *)
(***************************************************************************)
DB == [respondant |-> respondant, json_data |-> json_data, responses |-> responses,
       multianswers |-> multianswers, gridanswers |-> gridanswers,
       locations |-> locations, locanswers |-> locanswers, nextLoc |-> nextLoc,
       normLog |-> normLog, saveCount |-> saveCount]

\* REVIEW_STATE_NEEDED, REVIEW_STATE_FLAGGED, REVIEW_STATE_ACCEPTED
REVIEW_STATE_NEEDED == JStr(<<"needs review">>)
REVIEW_STATE_FLAGGED == JStr(<<"flagged">>)
REVIEW_STATE_ACCEPTED == JStr(<<"accepted">>)
ReviewStates == {REVIEW_STATE_NEEDED, REVIEW_STATE_FLAGGED, REVIEW_STATE_ACCEPTED}

\* STATE_CHOICES
StatusChoices == {JStr(<<"complete">>), JStr(<<"terminate">>)}

\* get_review_status_display(): the label of the choice, or the value itself
ReviewStatusDisplay(v) ==
    CASE v = REVIEW_STATE_NEEDED -> JStr(<<"Needs Review">>)
      [] v = REVIEW_STATE_FLAGGED -> JStr(<<"Flagged">>)
      [] v = REVIEW_STATE_ACCEPTED -> JStr(<<"Accepted">>)
      [] OTHER -> v

\* A Respondant as constructed: status None, review_status needs review,
\* csv_row None (0), not yet stored.  Only the fields the normalizer and
\* the export builder read or write are kept; of the filtering fields,
\* survey_site stands for all four.
NewRespondant ==
    [saved |-> FALSE, status |-> JNull, review_status |-> REVIEW_STATE_NEEDED,
     survey_site |-> JNull, locations |-> JNull, csv_row |-> 0]

\* the models' field names that a question slug can hit through
\* hasattr(self.respondant, question_slug), among those the model keeps
RespondantAttrs == {"status", "review_status", "survey_site"}

\* question_slug = self.question.slug.replace('-', '_')
QuestionSlugAttr(slug) ==
    CASE slug = "survey-site" -> "survey_site"
      [] slug = "review-status" -> "review_status"
      [] OTHER -> slug

(***************************************************************************)
(* Flat export builder.                                                    *)
(***************************************************************************)
PassThroughTypes == {"info", "text", "textarea", "yes-no", "single-select",
                     "auto-single-select", "map-multipoint", "pennies",
                     "timepicker", "multi-select"}
NumericTypes == {"currency", "integer", "number"}

\* the field name of a flat mapping: slug, or slug + '-' + row_label
Key(slug, row) == <<slug, row>>

\* dict.update: the entries of d replace those of flat
Update(flat, d) == d @@ flat

\* the loop over self.gridanswer_set.all(): a later row replaces an earlier
\* one with the same row label
RECURSIVE GridFlat(_, _, _)
GridFlat(slug, rows, n) ==
    IF n = 0 THEN <<>>
    ELSE Update(GridFlat(slug, rows, n - 1),
                Key(slug, rows[n].row_label) :> rows[n].answer_text)

\* a flat export that skips a Response of a type it does not know
ResponseFlatDictLenient(db, rid) ==
    LET r == db.responses[rid]
        mine == SelectSeq(db.gridanswers, LAMBDA g : g.response = rid)
    IN  IF r.answer_raw = EmptyRaw THEN [err |-> "none", none |-> TRUE, flat |-> <<>>]
        ELSE IF r.type \in PassThroughTypes
        THEN [err |-> "none", none |-> FALSE, flat |-> Key(r.slug, "") :> r.answer]
        ELSE IF r.type \in NumericTypes
        THEN [err |-> "none", none |-> FALSE,
              flat |-> Key(r.slug, "") :> JStr(DecimalText(r.answer_number))]
        ELSE IF r.type = "datepicker"
        THEN IF r.answer_date.k = "null"
             THEN [err |-> "AttributeError", none |-> FALSE, flat |-> <<>>]
             ELSE [err |-> "none", none |-> FALSE,
                   flat |-> Key(r.slug, "") :> JStr(Strftime(r.answer_date))]
        ELSE IF r.type = "grid"
        THEN [err |-> "none", none |-> FALSE,
              flat |-> GridFlat(r.slug, mine, Len(mine))]
        ELSE [err |-> "none", none |-> FALSE, flat |-> <<>>]

\* Response.generate_flat_dict on the stored row r with id rid.
\* none: the method returns None (answer_raw empty), not a mapping.
ResponseFlatDict(db, rid) ==
    LET r == db.responses[rid]
        mine == SelectSeq(db.gridanswers, LAMBDA g : g.response = rid)
    IN  IF r.answer_raw = EmptyRaw THEN [err |-> "none", none |-> TRUE, flat |-> <<>>]
        ELSE IF r.type \in PassThroughTypes
        THEN [err |-> "none", none |-> FALSE, flat |-> Key(r.slug, "") :> r.answer]
        ELSE IF r.type \in NumericTypes
        THEN [err |-> "none", none |-> FALSE,
              flat |-> Key(r.slug, "") :> JStr(DecimalText(r.answer_number))]
        ELSE IF r.type = "datepicker"
        THEN IF r.answer_date.k = "null"
             THEN [err |-> "AttributeError", none |-> FALSE, flat |-> <<>>]
             ELSE [err |-> "none", none |-> FALSE,
                   flat |-> Key(r.slug, "") :> JStr(Strftime(r.answer_date))]
        ELSE IF r.type = "grid"
        THEN [err |-> "none", none |-> FALSE,
              flat |-> GridFlat(r.slug, mine, Len(mine))]
        ELSE [err |-> "NotImplementedError", none |-> FALSE, flat |-> <<>>,
              message |-> <<"Found unknown question type of", r.type,
                            "while processing response id", rid>>]

\* the loop of Respondant.generate_flat_dict from Response i on;
\* flat.update(None) is a TypeError
RECURSIVE FlatLoop(_, _, _)

\* flat.update(f) for the mapping f of Response i, then the next Response
FlatUpdate(db, flat, i, f) ==
    IF f.err # "none" THEN [err |-> f.err, flat |-> flat]
    ELSE IF f.none THEN [err |-> "TypeError", flat |-> flat]
    ELSE FlatLoop(db, Update(flat, f.flat), i + 1)

FlatLoop(db, flat, i) ==
    IF i > Len(db.responses) THEN [err |-> "none", flat |-> flat]
    ELSE FlatUpdate(db, flat, i, ResponseFlatDict(db, i))

\* a flat export that stamps the mapping with the number of the call
RespondantFlatDictStamped(db, inst) ==
    FlatLoop(db, (Key("model-review-status", "") :> ReviewStatusDisplay(inst.review_status))
                 @@ (Key("model-generated", "") :> JStr(<<ToString(last.calls)>>)), 1)

\* Respondant.generate_flat_dict on the instance inst.  The fixed fields
\* model-surveyor, model-timestamp, model-email and model-complete are
\* fields no operation of the model writes; model-review-status stands
\* for them.
RespondantFlatDict(db, inst) ==
    FlatLoop(db, Key("model-review-status", "") :> ReviewStatusDisplay(inst.review_status), 1)

\* simplejson.dumps of one value of the mapping
JsonToken(v) ==
    CASE v.k = "null" -> <<"null">>
      [] v.k = "str" -> <<"\"">> \o v.s \o <<"\"">>
      [] OTHER -> <<"\"", ToString(v), "\"">>

\* simplejson.dumps(flat)
Dumps(flat) == [k |-> "json", of |-> [key \in DOMAIN flat |-> JsonToken(flat[key])]]

\* json_data of a CSVRow that was created and never written
UnsetJson == [k |-> "unset"]

\* self.csv_row.json_data = simplejson.dumps(f); self.csv_row.save()
WriteCsvRow(db, f) ==
    IF f.err # "none" THEN [err |-> f.err, db |-> db]
    ELSE [err |-> "none", db |-> [db EXCEPT !.json_data = Dumps(f.flat)]]

\* Respondant.update_csv_row
UpdateCsvRow(db, inst) == WriteCsvRow(db, RespondantFlatDict(db, inst))

\* a count that is read from the stored field instead of the rows
LocationCountStale(db) ==
    IF db.respondant.locations = JNull THEN 0 ELSE db.respondant.locations.w

\* number of Location rows of the Respondant: self.location_set.all().count()
LocationCount(db) == Len(SelectSeq(db.locations, LAMBDA l : l.respondant = 1))

\* a save that puts a Respondant with a status back to needs review
StoredRespondantReviewReset(inst) ==
    [inst EXCEPT !.saved = TRUE, !.status = ToText(inst.status),
                 !.review_status = IF inst.status = JNull THEN ToText(inst.review_status)
                                   ELSE REVIEW_STATE_NEEDED,
                 !.survey_site = ToText(inst.survey_site)]

\* the row that super(Respondant, self).save() writes for the instance
StoredRespondant(inst) ==
    [inst EXCEPT !.saved = TRUE, !.status = ToText(inst.status),
                 !.review_status = ToText(inst.review_status),
                 !.survey_site = ToText(inst.survey_site)]

\* the end of Respondant.save on the instance i2, whose locations and
\* csv_row are set: the row is written, then update_csv_row
StoreAndExport(db, i2, fresh) ==
    [inst |-> i2] @@
    UpdateCsvRow([db EXCEPT !.respondant = StoredRespondant(i2),
                            !.json_data = IF fresh THEN UnsetJson ELSE @], i2)

\* Respondant.save on the instance inst
RespondantSave(db, inst) ==
    StoreAndExport(db,
                   [inst EXCEPT !.locations = JInt(LocationCount(db)),
                                !.csv_row = IF @ = 0 THEN 1 ELSE @],
                   inst.csv_row = 0)

(***************************************************************************)
(* Response normalizer.                                                    *)
(***************************************************************************)
SelectTypes == {"auto-single-select", "single-select", "yes-no"}
MultiTypes == {"auto-multi-select", "multi-select"}
GridSingleTypes == {"currency", "integer", "number", "single-select", "text", "yes-no"}

\* `for x in v`: a list gives its elements, a string its characters, a dict
\* its keys; None, a number or a boolean is a TypeError
Iterate(v) ==
    CASE v.k = "list" -> [err |-> "none", items |-> v.items]
      [] v.k = "str" -> [err |-> "none", items |-> [i \in 1..Len(v.s) |-> JStr(<<v.s[i]>>)]]
      [] v.k = "jsontext" -> [err |-> "none", items |-> <<JStr(<<"[">>)>>]
      [] v.k \in {"obj", "point", "row"} -> [err |-> "none", items |-> <<JStr(<<"label">>)>>]
      [] OTHER -> [err |-> "TypeError", items |-> <<>>]

\* a local variable that no statement has assigned yet
Unbound == <<"<unbound>">>

\* whether v is a dict, and dict.get(key) on it
IsDict(v) == v.k \in {"obj", "point", "row"}
Get(v, key) ==
    IF v.k = "obj" THEN v[key]
    ELSE IF v.k = "row" /\ key \in {"label", "text"} THEN <<v[key]>>
    ELSE Absent

\* a name/text choice that prefers the text and does not trim
TextOrNameUntrimmed(obj, otherwise) ==
    IF Truthy(Get(obj, "text")) THEN Get(obj, "text")
    ELSE IF Truthy(Get(obj, "name")) THEN Get(obj, "name")
    ELSE otherwise

\* the name/text choice of the select branches: the trimmed name if the
\* object has a non-empty name, else the trimmed text if it has one, else
\* `otherwise`
NameOrText(obj, otherwise) ==
    IF Truthy(Get(obj, "name")) THEN Strip(Get(obj, "name"))
    ELSE IF Truthy(Get(obj, "text")) THEN Strip(Get(obj, "text"))
    ELSE otherwise

\* the loop of the multi-select branch from element i on.
\* st: answers, rows (MultiAnswer rows saved), answer_text (the local), err
RECURSIVE MultiLoop(_, _, _, _)

\* answers.append(answer_text) and the MultiAnswer row of element i, whose
\* local answer_text is the one given; then the next element
MultiSave(rid, items, i, st, answer_text) ==
    IF answer_text = Unbound
    THEN [st EXCEPT !.err = "UnboundLocalError"]
    ELSE MultiLoop(rid, items, i + 1,
           [st EXCEPT
              !.answer_text = answer_text,
              !.answers = Append(@, answer_text),
              !.rows = Append(@,
                  [response |-> rid,
                   answer_text |-> JStr(answer_text),
                   answer_label |-> IF Get(items[i], "label") = Absent THEN JNull
                                    ELSE JStr(Get(items[i], "label"))])])

MultiLoop(rid, items, i, st) ==
    IF i > Len(items) THEN st
    ELSE IF ~IsDict(items[i]) THEN [st EXCEPT !.err = "AttributeError"]
    ELSE MultiSave(rid, items, i, st, NameOrText(items[i], st.answer_text))

\* "%s,%s: %s" % (point['lat'], point['lng'], point['answers'])
PointSummary(point) ==
    Fmt(point.lat) \o <<",">> \o Fmt(point.lng) \o <<":", " ">> \o <<ToString(point.answers)>>

\* an inner loop that stores the label of a sub-answer as its answer
RECURSIVE SubAnswerLoopLabelAsAnswer(_, _, _, _)
SubAnswerLoopLabelAsAnswer(loc, group, j, st) ==
    IF j > Len(group) THEN st
    ELSE IF group[j].text = Absent \/ group[j].label = Absent
    THEN [st EXCEPT !.err = "KeyError"]
    ELSE SubAnswerLoopLabelAsAnswer(loc, group, j + 1,
           [st EXCEPT !.locanswers = Append(@,
               [location |-> loc, answer |-> JStr(group[j].label),
                label |-> JStr(group[j].label)])])

\* the inner loop `for answer in point['answers'][0]` from sub-answer j on
RECURSIVE SubAnswerLoop(_, _, _, _)
SubAnswerLoop(loc, group, j, st) ==
    IF j > Len(group) THEN st
    ELSE IF group[j].text = Absent \/ group[j].label = Absent
    THEN [st EXCEPT !.err = "KeyError"]
    ELSE SubAnswerLoop(loc, group, j + 1,
           [st EXCEPT !.locanswers = Append(@,
               [location |-> loc, answer |-> JStr(group[j].text),
                label |-> JStr(group[j].label)])])

\* the loop of the map-multipoint and pennies branches from point i on.
\* st: answers, locations, locanswers (rows saved), nextLoc, err
RECURSIVE PointLoop(_, _, _, _)

\* after the inner loop of point i: the next point, unless it raised
PointNext(rid, points, i, st) ==
    IF st.err # "none" THEN st ELSE PointLoop(rid, points, i + 1, st)

\* location.save() for point i with the column values lat and lng, then
\* the inner loop over point['answers'][0]
LocationSave(rid, points, i, st, lat, lng) ==
    IF lat.err # "none" \/ lng.err # "none"
    THEN [st EXCEPT !.err = "InvalidOperation"]
    ELSE IF points[i].answers = <<>>
    THEN [st EXCEPT !.locations = Append(@,
                        [id |-> st.nextLoc, response |-> rid, respondant |-> 1,
                         lat |-> lat.d, lng |-> lng.d]),
                    !.nextLoc = @ + 1,
                    !.err = "IndexError"]
    ELSE PointNext(rid, points, i,
           SubAnswerLoop(st.nextLoc, points[i].answers[1], 1,
             [st EXCEPT !.locations = Append(@,
                            [id |-> st.nextLoc, response |-> rid, respondant |-> 1,
                             lat |-> lat.d, lng |-> lng.d]),
                        !.nextLoc = @ + 1]))

PointLoop(rid, points, i, st) ==
    IF i > Len(points) THEN st
    ELSE IF points[i].k # "point" THEN [st EXCEPT !.err = "TypeError"]
    ELSE LocationSave(rid, points, i,
           [st EXCEPT !.answers = Append(@, PointSummary(points[i]))],
           Quantize(points[i].lat, LatLngMaxDigits, LatLngDecimalPlaces),
           Quantize(points[i].lng, LatLngMaxDigits, LatLngDecimalPlaces))

\* grid_col.label.replace('-', '')
RECURSIVE DropHyphens(_)
DropHyphens(s) ==
    IF s = <<>> THEN <<>>
    ELSE IF Head(s) = "-" THEN DropHyphens(Tail(s))
    ELSE <<Head(s)>> \o DropHyphens(Tail(s))

\* answer[key] of a row-answer object: a missing key is a KeyError
Cell(answer, key) ==
    IF answer.k # "row" THEN [err |-> "TypeError", v |-> JNull]
    ELSE IF key \notin DOMAIN answer.cells THEN [err |-> "KeyError", v |-> JNull]
    ELSE [err |-> "none", v |-> answer.cells[key]]

\* one cell of the grid branch: row-answer `answer`, column grid_col.
\* st: rows (GridAnswer rows saved), e_bound (whether the local e of
\* `except Exception as e` has been assigned), err
GridRow(rid, answer, grid_col, text, number) ==
    [response |-> rid, row_label |-> answer.label, row_text |-> answer.text,
     col_label |-> grid_col.label, col_text |-> grid_col.text,
     answer_text |-> text, answer_number |-> number]

\* the try block of a single-valued column: cell is answer[label], number
\* its value for the decimal column
GridSingle(rid, answer, grid_col, st, cell, number) ==
    IF cell.err # "none" \/ number.err # "none"
    THEN [st EXCEPT !.e_bound = TRUE]
    ELSE [st EXCEPT !.rows = Append(@, GridRow(rid, answer, grid_col,
                                               ToText(cell.v), number.d))]

\* the try block of a multi-select column: these is the iteration of
\* answer[label]
GridMulti(rid, answer, grid_col, st, cell, these) ==
    IF cell.err # "none" \/ these.err # "none"
    THEN IF st.e_bound THEN st ELSE [st EXCEPT !.err = "UnboundLocalError"]
    ELSE [st EXCEPT !.rows = @ \o
            [j \in 1..Len(these.items) |->
                GridRow(rid, answer, grid_col, ToText(these.items[j]), DNull)]]

GridCellOf(rid, answer, grid_col, st, cell) ==
    IF grid_col.type \in GridSingleTypes
    THEN GridSingle(rid, answer, grid_col, st, cell,
                    ToDecimal(cell.v, NumberMaxDigits, NumberDecimalPlaces))
    ELSE IF grid_col.type = "multi-select"
    THEN GridMulti(rid, answer, grid_col, st, cell, Iterate(cell.v))
    ELSE st

GridCell(rid, answer, grid_col, st) ==
    GridCellOf(rid, answer, grid_col, st, Cell(answer, DropHyphens(grid_col.label)))

\* the loops of the grid branch, from row-answer i and column j on
RECURSIVE GridLoop(_, _, _, _, _, _)
GridLoop(rid, answers, cols, i, j, st) ==
    IF st.err # "none" \/ i > Len(answers) THEN st
    ELSE IF j > Len(cols) THEN GridLoop(rid, answers, cols, i + 1, 1, st)
    ELSE GridLoop(rid, answers, cols, i, j + 1, GridCell(rid, answers[i], cols[j], st))

\* a handler that forgets the `created` test
HandlerRunsOnEverySave(created) == TRUE

\* the post_save handler save_related: `if created:`
HandlerRuns(created) == created

\* self.answer, self.answer_number and self.answer_date as Python values
\* after `self.answer = simplejson.loads(self.answer_raw)`, with the stored
\* state and the exception raised so far
Decoded(db, rid) ==
    [err |-> "none", db |-> db,
     answer |-> Loads(JText(db.responses[rid].answer_raw)).v,
     answer_number |-> db.responses[rid].answer_number,
     answer_date |-> db.responses[rid].answer_date]

\* the datepicker branch: d is the result of strptime
DateBranch(base, d) ==
    IF d.err # "none" THEN [base EXCEPT !.err = d.err]
    ELSE [base EXCEPT !.answer_date = d.d]

\* the select branch: chosen is the trimmed name or text, if any
SelectBranch(base, chosen) ==
    IF chosen = Unbound THEN base ELSE [base EXCEPT !.answer = JStr(chosen)]

\* a multi-select branch that keeps the rows of the earlier passes
MultiBranchAppending(base, rid, st) ==
    IF st.err # "none"
    THEN [base EXCEPT !.err = st.err, !.db.multianswers = @ \o st.rows]
    ELSE [base EXCEPT !.db.multianswers = @ \o st.rows,
                      !.answer = JStr(Join(CommaSpace, st.answers))]

\* the end of the multi-select branch: st is the state of the loop
MultiBranch(base, rid, st) ==
    IF st.err # "none"
    THEN [base EXCEPT !.err = st.err,
                      !.db.multianswers =
                          SelectSeq(@, LAMBDA m : m.response # rid) \o st.rows]
    ELSE [base EXCEPT !.db.multianswers =
                          SelectSeq(@, LAMBDA m : m.response # rid) \o st.rows,
                      !.answer = JStr(Join(CommaSpace, st.answers))]

\* the ids of the Location rows of Response rid
LocationIds(db, rid) ==
    {db.locations[i].id : i \in {i \in 1..Len(db.locations) :
                                    db.locations[i].response = rid}}

\* self.location_set.all().delete(): the rows and, by cascade, their
\* LocationAnswer rows
DeleteLocations(db, rid, gone) ==
    [db EXCEPT !.locations = SelectSeq(@, LAMBDA l : l.response # rid),
               !.locanswers = SelectSeq(@, LAMBDA a : a.location \notin gone)]

\* the end of the map-multipoint and pennies branches: st is the state of
\* the loop
PointBranch(base, rid, st) ==
    IF st.err # "none"
    THEN [base EXCEPT !.err = st.err,
                      !.db = [DeleteLocations(@, rid, LocationIds(@, rid)) EXCEPT
                                !.locations = @ \o st.locations,
                                !.locanswers = @ \o st.locanswers,
                                !.nextLoc = st.nextLoc]]
    ELSE [base EXCEPT !.db = [DeleteLocations(@, rid, LocationIds(@, rid)) EXCEPT
                                !.locations = @ \o st.locations,
                                !.locanswers = @ \o st.locanswers,
                                !.nextLoc = st.nextLoc],
                      !.answer = JStr(Join(CommaSpace, st.answers))]

\* simplejson.loads(simplejson.loads(self.answer_raw)), iterated
Points(inner) ==
    IF inner.err # "none" THEN [err |-> inner.err, items |-> <<>>]
    ELSE Iterate(inner.v)

\* the end of the grid branch: st is the state of the loops
GridBranch(base, rid, st) ==
    [base EXCEPT !.err = st.err,
                 !.db.gridanswers = SelectSeq(@, LAMBDA g : g.response # rid) \o st.rows]

\* the type branches of Response.save_related on self (the stored row rid,
\* whose answer_raw is not empty) of question type `type`, from the decoded
\* state base; `it` is the iteration of a list-valued answer
TypeBranch(base, rid, type, grid_cols, it) ==
    IF type = "datepicker" THEN DateBranch(base, Strptime(base.answer))
    ELSE IF type \in NumericTypes
    THEN IF base.answer.k \in {"num", "bool"}
         THEN [base EXCEPT !.answer_number = base.answer]
         ELSE [base EXCEPT !.answer = JNull]
    ELSE IF type \in SelectTypes
    THEN IF ~IsDict(base.answer) THEN [base EXCEPT !.err = "AttributeError"]
         ELSE SelectBranch(base, NameOrText(base.answer, Unbound))
    ELSE IF type \in MultiTypes
    THEN MultiBranch(base, rid,
           MultiLoop(rid, it.items, 1,
              [answers |-> <<>>, rows |-> <<>>, answer_text |-> Unbound,
               err |-> it.err]))
    ELSE IF type = "grid"
    THEN GridBranch(base, rid,
           GridLoop(rid, it.items, grid_cols, 1, 1,
              [rows |-> <<>>, e_bound |-> FALSE, err |-> it.err]))
    ELSE base

\* the map-multipoint and pennies branches, whose payload is decoded twice
PointTypeBranch(base, rid, it) ==
    PointBranch(base, rid,
      PointLoop(rid, it.items, 1,
         [answers |-> <<>>, locations |-> <<>>, locanswers |-> <<>>,
          nextLoc |-> base.db.nextLoc, err |-> it.err]))

Branched(base, rid, type, grid_cols) ==
    IF type \in {"map-multipoint", "pennies"}
    THEN PointTypeBranch(base, rid, Points(Loads(base.answer)))
    ELSE TypeBranch(base, rid, type, grid_cols,
                    IF type \in MultiTypes \/ type = "grid" THEN Iterate(base.answer)
                    ELSE [err |-> "none", items |-> <<>>])

Branches(db, rid) ==
    Branched(Decoded(db, rid), rid, db.responses[rid].type, db.responses[rid].grid_cols)

\* self.save() at the end of save_related: b carries self, s the stored
\* state and exception after the Respondant was updated, number is
\* self.answer_number for its column
SaveSelf(b, rid, s, number) ==
    IF s.err # "none" THEN s
    ELSE IF number.err # "none"
    THEN [err |-> number.err, db |-> [s.db EXCEPT !.saveCount[rid] = @ + 1]]
    ELSE [err |-> "none",
          db |-> [s.db EXCEPT
                    !.responses[rid].answer = ToText(b.answer),
                    !.responses[rid].answer_number = number.d,
                    !.responses[rid].answer_date = b.answer_date,
                    !.saveCount[rid] = @ + 1,
                    !.normLog[rid] = IF HandlerRuns(FALSE)
                                     THEN Append(@, s.db.saveCount[rid] + 1) ELSE @]]

\* self.respondant.update_csv_row() after self.respondant.save()
ExportAgain(saved) ==
    IF saved.err # "none" THEN [err |-> saved.err, db |-> saved.db]
    ELSE UpdateCsvRow(saved.db, saved.inst)

\* the per-slug attribute of the Respondant: the filter().update(), the
\* setattr, the save and the export row
SetRespondantAttr(b, attr) ==
    IF attr \notin RespondantAttrs THEN [err |-> "none", db |-> b.db]
    ELSE ExportAgain(RespondantSave([b.db EXCEPT !.respondant[attr] = ToText(b.answer)],
                                    [b.db.respondant EXCEPT ![attr] = b.answer]))

\* the end of Response.save_related: the per-slug attribute of the
\* Respondant, its save and export row, then self.save()
SaveRelatedTail(b, rid) ==
    SaveSelf(b, rid,
             SetRespondantAttr(b, QuestionSlugAttr(b.db.responses[rid].slug)),
             ToDecimal(b.answer_number, NumberMaxDigits, NumberDecimalPlaces))

\* Response.save_related, once the branches are through
AfterBranches(b, rid) ==
    IF b.err # "none" THEN [err |-> b.err, db |-> b.db]
    ELSE SaveRelatedTail(b, rid)

\* Response.save_related
SaveRelated(db, rid) ==
    IF db.responses[rid].answer_raw = EmptyRaw THEN [err |-> "none", db |-> db]
    ELSE AfterBranches(Branches(db, rid), rid)

\* signals.post_save for Response, after save number n of the row
PostSave(db, rid, created) ==
    IF HandlerRuns(created)
    THEN SaveRelated([db EXCEPT !.normLog[rid] = Append(@, db.saveCount[rid])], rid)
    ELSE [err |-> "none", db |-> db]

\* Response.save of a new instance: the row is inserted with the fields the
\* caller supplies (question, respondant, answer_raw), then post_save
ResponseCreate(db, question, raw) ==
    PostSave([db EXCEPT
                !.responses = Append(@,
                    [type |-> question.type, slug |-> question.slug,
                     grid_cols |-> question.grid_cols, answer_raw |-> raw,
                     answer |-> JNull, answer_number |-> DNull, answer_date |-> DNull]),
                !.saveCount = Append(@, 1),
                !.normLog = Append(@, <<>>)],
             Len(db.responses) + 1, TRUE)

\* Response.save of a stored instance whose answer_raw the caller has set
ResponseUpdate(db, rid, raw) ==
    PostSave([db EXCEPT !.responses[rid].answer_raw = raw,
                        !.saveCount[rid] = @ + 1], rid, FALSE)

(***************************************************************************)
(* Inputs of the callers.                                                  *)
(***************************************************************************)
Question(type, slug) == [type |-> type, slug |-> slug, grid_cols |-> <<>>]
Option(label, text, type) == [label |-> label, text |-> text, type |-> type]

\* a grid question with a numeric, a multi-select and a text column
GridCols ==
    << Option(<<"a", "-", "m", "t">>, "Amount", "integer"),
       Option(<<"k", "i", "n", "d">>, "Kinds", "multi-select"),
       Option(<<"n", "o", "t", "e">>, "Note", "text") >>
\* a grid question whose first column is the multi-select one
GridColsMultiFirst ==
    << Option(<<"k", "i", "n", "d">>, "Kinds", "multi-select"),
       Option(<<"a", "-", "m", "t">>, "Amount", "integer") >>
GridQuestion(slug, cols) == [type |-> "grid", slug |-> slug, grid_cols |-> cols]

Hello == JStr(<<"h", "e", "l", "l", "o">>)
Padded == JStr(<<" ", "h", "i", " ">>)
DateText == JStr(<<"03", "/", "20", "/", "2014">>)
Three == JInt(3)
Pi == JFloat(3, 146, 3)
Huge == JInt(Pow10(NumberMaxDigits - NumberDecimalPlaces))

Blue == JObj(<<" ", "B", "l", "u", "e", " ">>, Absent, <<"b", "l", "u", "e">>)
TextOnly == JObj(Absent, <<" ", "t", " ">>, Absent)
Both == JObj(<<"A">>, <<"B">>, <<"a">>)
LabelOnly == JObj(Absent, Absent, <<"x">>)
\* an option whose name is the empty string
EmptyName == JObj(<<>>, <<" ", "B">>, Absent)

SubAnswer(text, label) == [text |-> text, label |-> label]
PointA == JPoint(JFloat(1, 0, 1), JFloat(2, 0, 1), << <<SubAnswer(<<"x">>, <<"x-label">>)>> >>)
PointB == JPoint(JFloat(2, 15, 8), JFloat(1, 5, 1),
                 << <<SubAnswer(<<"y">>, <<"y-label">>), SubAnswer(<<"z">>, <<"z-label">>)>> >>)
PointTwoGroups == JPoint(JFloat(1, 0, 1), JFloat(2, 0, 1),
                         << <<SubAnswer(<<"x">>, <<"x-label">>)>>, <<SubAnswer(<<"w">>, <<"w-label">>)>> >>)
PointNoAnswers == JPoint(JFloat(1, 0, 1), JFloat(2, 0, 1), <<>>)
\* a latitude of four integer digits
PointFar == JPoint(JFloat(1000, 0, 1), JFloat(2, 0, 1), << <<SubAnswer(<<"x">>, <<"x-label">>)>> >>)

Amt == <<"a", "m", "t">>
Kind == <<"k", "i", "n", "d">>
Note == <<"n", "o", "t", "e">>
Kinds(n) == JList([i \in 1..n |-> JStr(<<"k", ToString(i)>>)])
\* a row-answer with a value for every column key
FullRow(label, note, n) ==
    JRow(label, "Row", (Amt :> Three) @@ (Kind :> Kinds(n)) @@ (Note :> note))
\* row-answers that miss a column key
NoAmtRow == JRow("r1", "Row", (Kind :> Kinds(1)) @@ (Note :> JStr(<<"5">>)))
NoKindRow == JRow("r1", "Row", (Amt :> Three) @@ (Note :> JStr(<<"5">>)))

NumericPayloads == {Three, Pi, Huge, JBool(TRUE), JNull, Hello, Blue, JList(<<>>)}
SelectPayloads == {Blue, TextOnly, Both, LabelOnly, EmptyName, Hello, Three}
ScalarPayloads == {Hello, Padded, Three}
MultiPayloads == {JList(<<>>), JList(<<Blue>>), JList(<<Blue, TextOnly>>),
                  JList(<<LabelOnly>>), JList(<<Both, LabelOnly>>), Hello}
PointPayloads == {JText(JList(<<>>)), JText(JList(<<PointA>>)),
                  JText(JList(<<PointA, PointB>>)), JList(<<PointA>>),
                  JText(JList(<<PointTwoGroups>>)), JText(JList(<<PointNoAnswers>>)),
                  JText(JList(<<PointA, PointFar>>))}
GridPayloads == {JList(<<FullRow("r1", JStr(<<"5">>), 2)>>),
                 JList(<<FullRow("r1", Hello, 0)>>),
                 JList(<<FullRow("r1", JStr(<<"5">>), 1), FullRow("r2", JStr(<<"6">>), 2)>>),
                 JList(<<NoAmtRow, FullRow("r2", JStr(<<"6">>), 1)>>),
                 JList(<<NoKindRow, FullRow("r2", JStr(<<"6">>), 1)>>)}

\* the slugs of the questions: q1 names no attribute of Respondant,
\* survey-site and status do
Slugs == {"q1", "survey-site", "status"}

\* what a caller submits when it creates a Response: <<question, payload>>
Submit(types, slugs, payloads) ==
    {<<Question(t, s), p>> : t \in types, s \in slugs, p \in payloads}

\* the submissions of the normalizer specification: every branch with the
\* payload shapes it can meet
NormalizeSubmissions ==
    Submit(NumericTypes, {"q1", "survey-site"}, NumericPayloads)
    \cup Submit(SelectTypes, {"q1", "survey-site"}, SelectPayloads)
    \cup Submit({"text", "textarea", "timepicker", "info"}, {"q1", "survey-site"}, ScalarPayloads)
    \cup Submit(MultiTypes, {"q1", "survey-site"}, MultiPayloads)
    \cup Submit({"map-multipoint", "pennies"}, {"q1", "survey-site"}, PointPayloads)
    \cup {<<GridQuestion(s, c), p>> : s \in {"q1", "survey-site"},
                                       c \in {GridCols, GridColsMultiFirst},
                                       p \in GridPayloads}
    \cup Submit({"datepicker"}, {"q1", "survey-site"}, {DateText, Hello})
    \cup Submit({"datetimepicker", "location", "bogus"}, {"q1", "survey-site"}, {Hello})
    \cup Submit({"text"}, {"q1"}, {EmptyRaw})

\* the submissions of the lifecycle specification
LifecycleSubmissions ==
    Submit({"text"}, {"q1", "status"}, {Hello})
    \cup Submit({"text"}, {"q1"}, {EmptyRaw})
    \cup Submit({"map-multipoint"}, {"survey-site"}, {JText(JList(<<PointA>>))})
    \cup {<<GridQuestion("q1", GridCols), JList(<<FullRow("r1", JStr(<<"5">>), 2)>>)>>}
    \cup Submit({"datetimepicker"}, {"q1"}, {Hello})

\* what a caller changes on a Respondant before it saves it
Keep == [k |-> "keep"]
Edit(status, review_status) == [status |-> status, review_status |-> review_status]
RespondantEdits ==
    {Edit(Keep, Keep), Edit(JStr(<<"complete">>), Keep), Edit(JStr(<<"terminate">>), Keep),
     Edit(Keep, REVIEW_STATE_FLAGGED)}

\* the submissions of the specification of repeated normalization: the
\* types that have child rows, with payloads that pass and payloads that
\* raise part-way
RenormalizeSubmissions ==
    Submit({"multi-select"}, {"q1"}, {JList(<<Blue, TextOnly>>), JList(<<Both, LabelOnly>>)})
    \cup Submit({"map-multipoint"}, {"q1"}, {JText(JList(<<PointA, PointB>>)),
                                             JText(JList(<<PointNoAnswers>>))})
    \cup Submit({"pennies"}, {"survey-site"}, {JText(JList(<<PointA>>))})
    \cup {<<GridQuestion("q1", GridCols), JList(<<FullRow("r1", JStr(<<"5">>), 2)>>)>>}

\* the payloads a caller sets on a stored Response before it saves it again
UpdatePayloads == {Padded}

(***************************************************************************)
(* The operations of the callers.                                          *)
(***************************************************************************)
Write(db) ==
    /\ respondant' = db.respondant
    /\ json_data' = db.json_data
    /\ responses' = db.responses
    /\ multianswers' = db.multianswers
    /\ gridanswers' = db.gridanswers
    /\ locations' = db.locations
    /\ locanswers' = db.locanswers
    /\ nextLoc' = db.nextLoc
    /\ normLog' = db.normLog
    /\ saveCount' = db.saveCount

NoFlat == [err |-> "none", flat |-> <<>>]

\* the outcome r of operation op is committed and recorded
Done(r, op, rid, edit) ==
    /\ Write(r.db)
    /\ last' = [op |-> op, rid |-> rid, err |-> r.err, edit |-> edit,
                flat |-> NoFlat, prev |-> NoFlat, calls |-> 0]

Init ==
    /\ respondant = NewRespondant
    /\ json_data = UnsetJson
    /\ responses = <<>>
    /\ multianswers = <<>>
    /\ gridanswers = <<>>
    /\ locations = <<>>
    /\ locanswers = <<>>
    /\ nextLoc = 1
    /\ normLog = <<>>
    /\ saveCount = <<>>
    /\ last = [op |-> "init", rid |-> 0, err |-> "none", edit |-> Keep,
               flat |-> NoFlat, prev |-> NoFlat, calls |-> 0]

\* a caller loads the Respondant, edits it and calls Respondant.save
SaveRespondant(edit) ==
    Done(RespondantSave(DB, [respondant EXCEPT
                               !.status = IF edit.status = Keep THEN @ ELSE edit.status,
                               !.review_status = IF edit.review_status = Keep THEN @
                                                 ELSE edit.review_status]),
         "Respondant.save", 0, edit)

\* a caller creates a Response of the stored Respondant
CreateWithin(sub, max) ==
    /\ respondant.saved
    /\ Len(responses) < max
    /\ Done(ResponseCreate(DB, sub[1], sub[2]), "Response.create",
            Len(responses) + 1, Keep)

\* a caller sets answer_raw on a stored Response and saves it
UpdateResponse(rid, raw) ==
    /\ rid \in 1..Len(responses)
    /\ saveCount[rid] < MaxSaves
    /\ Done(ResponseUpdate(DB, rid, raw), "Response.update", rid, Keep)

\* the reporting layer calls Respondant.generate_flat_dict
Flatten ==
    /\ respondant.saved
    /\ last.calls < MaxFlattenCalls
    /\ UNCHANGED <<respondant, json_data, responses, multianswers, gridanswers,
                   locations, locanswers, nextLoc, normLog, saveCount>>
    /\ last' = [op |-> "flatten", rid |-> 0, err |-> "none", edit |-> Keep,
                flat |-> RespondantFlatDict(DB, respondant), prev |-> last.flat,
                calls |-> last.calls + 1]

CreateResponse(sub) == CreateWithin(sub, MaxResponses)

NormalizeResponse(sub) == CreateWithin(sub, MaxNormalized)

Next ==
    \/ \E edit \in RespondantEdits : SaveRespondant(edit)
    \/ \E sub \in LifecycleSubmissions : CreateResponse(sub)
    \/ \E rid \in 1..MaxResponses, raw \in UpdatePayloads : UpdateResponse(rid, raw)
    \/ Flatten

Spec == Init /\ [][Next]_vars

\* a caller calls Response.save_related on a stored Response
Renormalize(rid) ==
    /\ rid \in 1..Len(responses)
    /\ Len(normLog[rid]) < MaxPasses
    /\ Done(SaveRelated([DB EXCEPT !.normLog[rid] = Append(@, saveCount[rid])], rid),
            "Response.save_related", rid, Keep)

RenormalizedResponse(sub) == CreateWithin(sub, MaxRenormalized)

\* repeated normalization: Responses with child rows, normalized again
NextRenormalize ==
    \/ \E edit \in {Edit(Keep, Keep)} : SaveRespondant(edit)
    \/ \E sub \in RenormalizeSubmissions : RenormalizedResponse(sub)
    \/ \E rid \in 1..MaxRenormalized : Renormalize(rid)

SpecRenormalize == Init /\ [][NextRenormalize]_vars

\* the normalizer alone: one Respondant, Responses of every branch
NextNormalize ==
    \/ \E edit \in {Edit(Keep, Keep)} : SaveRespondant(edit)
    \/ \E sub \in NormalizeSubmissions : NormalizeResponse(sub)

SpecNormalize == Init /\ [][NextNormalize]_vars

(***************************************************************************)
(* Properties.                                                             *)
(***************************************************************************)
Rids == 1..Len(responses)
Created == last.op = "Response.create"
Completed == Created /\ last.err = "none"
New == responses[last.rid]
Payload == New.answer_raw
MultiOf(rid) == SelectSeq(multianswers, LAMBDA m : m.response = rid)
GridOf(rid) == SelectSeq(gridanswers, LAMBDA g : g.response = rid)
LocationsOf(rid) == SelectSeq(locations, LAMBDA l : l.response = rid)
LocAnswersOf(loc) == SelectSeq(locanswers, LAMBDA a : a.location = loc)

\* C1: for every Response and every sequence of Response.save calls, the
\* normalization pass runs exactly once, on the save that creates the
\* Response (its save number 1), and on no later save: not on the save that
\* save_related issues at its end, not on a Respondant save, not on a later
\* save that changes answer_raw.
C1_NormalizedOnceAtCreation == \A rid \in Rids : normLog[rid] = <<1>>

\* a Response that was created, saved again by save_related and then
\* saved by a caller with another answer_raw, after a Respondant save
C1_Witness ==
    /\ last.op = "Response.update"
    /\ saveCount[last.rid] = 3
    /\ responses[last.rid].answer_raw = Padded
    /\ responses[last.rid].answer = ToText(Hello)
    /\ responses[last.rid].slug = "status"

\* C2: whenever the creation of a Response with a non-empty payload has
\* returned, csv_row.json_data of the Respondant is the serialization of
\* flatten(respondant) on the stored state.
C2_ExportRowCurrent ==
    (Completed /\ Payload # EmptyRaw) =>
        LET f == RespondantFlatDict(DB, respondant)
        IN  f.err = "none" /\ json_data = Dumps(f.flat)

\* C3: for a multi-select payload that is a sequence of N option objects,
\* normalization raises nothing, creates exactly N MultiAnswer rows, one per
\* element in order, and sets answer to the elements' trimmed names (or
\* texts) joined by ", ".
C3_TrimmedNameOrText(item) ==
    IF Truthy(item.name) THEN Strip(item.name)
    ELSE IF Truthy(item.text) THEN Strip(item.text) ELSE <<>>
C3_IsOptionList(v) == v.k = "list" /\ \A i \in 1..Len(v.items) : v.items[i].k = "obj"
C3_MultiSelectRows ==
    (Created /\ New.type = "multi-select" /\ C3_IsOptionList(Payload)) =>
        LET names == [i \in 1..Len(Payload.items) |-> C3_TrimmedNameOrText(Payload.items[i])]
        IN  /\ last.err = "none"
            /\ Len(MultiOf(last.rid)) = Len(Payload.items)
            /\ \A i \in 1..Len(MultiOf(last.rid)) :
                   MultiOf(last.rid)[i].answer_text = JStr(names[i])
            /\ New.answer = JStr(Join(CommaSpace, names))

\* C4: for a Response on a currency, integer or number question whose decoded
\* payload is not a number (string, boolean, null, object, sequence), after
\* normalization answer and answer_number are null and nothing was raised.
C4_NonNumericIsNull ==
    (Created /\ New.type \in NumericTypes /\ Payload # EmptyRaw /\ Payload.k # "num") =>
        /\ last.err = "none"
        /\ New.answer = JNull
        /\ New.answer_number = DNull

\* the value of the decimal d is exactly the number v
SameValue(d, v) ==
    /\ d.k = "dec"
    /\ d.w = v.w
    /\ IF v.fd <= d.places THEN d.c = v.f * Pow10(d.places - v.fd)
       ELSE v.f % Pow10(v.fd - d.places) = 0 /\ d.c = v.f \div Pow10(v.fd - d.places)

C6_HasEveryKey(v, cols) ==
    /\ v.k = "list"
    /\ \A i \in 1..Len(v.items) :
         /\ v.items[i].k = "row"
         /\ \A j \in 1..Len(cols) : DropHyphens(cols[j].label) \in DOMAIN v.items[i].cells
RECURSIVE C6_Expected(_, _, _, _)
C6_Expected(rows, cols, i, j) ==
    IF i > Len(rows) THEN 0
    ELSE IF j > Len(cols) THEN C6_Expected(rows, cols, i + 1, 1)
    ELSE (IF cols[j].type = "multi-select"
          THEN Len(rows[i].cells[DropHyphens(cols[j].label)].items)
          ELSE 1) + C6_Expected(rows, cols, i, j + 1)
C6_OneGridAnswerPerCell ==
    (Created /\ New.type = "grid" /\ C6_HasEveryKey(Payload, New.grid_cols)) =>
        /\ last.err = "none"
        /\ Len(GridOf(last.rid)) = C6_Expected(Payload.items, New.grid_cols, 1, 1)

\* the Location and LocationAnswer rows of Response rid are those of the
\* points: one Location per point, with lat and lng as `coordinate` gives
\* them, and per point one LocationAnswer per sub-answer of `subs`
C7_Rows(rid, points, coordinate(_), subs(_)) ==
    LET locs == LocationsOf(rid)
    IN  /\ Len(locs) = Len(points)
        /\ \A i \in 1..Len(locs) :
             /\ locs[i].response = rid /\ locs[i].respondant = 1
             /\ coordinate(points[i].lat) = locs[i].lat
             /\ coordinate(points[i].lng) = locs[i].lng
             /\ LET as == LocAnswersOf(locs[i].id)
                IN  /\ Len(as) = Len(subs(points[i]))
                    /\ \A j \in 1..Len(as) :
                         /\ as[j].answer = JStr(subs(points[i])[j].text)
                         /\ as[j].label = JStr(subs(points[i])[j].label)
C7_Summaries(points) ==
    JStr(Join(CommaSpace,
        [i \in 1..Len(points) |->
            NumText(points[i].lat) \o <<",">> \o NumText(points[i].lng)
            \o <<":", " ", ToString(points[i].answers)>>]))
C7_IsPoints(v) == v.k = "list" /\ \A i \in 1..Len(v.items) : v.items[i].k = "point"
\* every sub-answer of every group of the point
RECURSIVE C7_Flat(_)
C7_Flat(groups) == IF groups = <<>> THEN <<>> ELSE Head(groups) \o C7_Flat(Tail(groups))
C7_AllSubs(point) == C7_Flat(point.answers)
C7_FirstGroup(point) == point.answers[1]
\* the number rounded half-even to seven decimal places, and the number
\* itself when it has no more than seven
C7_Rounded(v) == Dec(v.w + (IF v.fd > 7 /\ RoundHalfEven(v.f, v.fd - 7) >= Pow10(7) THEN 1 ELSE 0),
                     IF v.fd <= 7 THEN v.f * Pow10(7 - v.fd)
                     ELSE RoundHalfEven(v.f, v.fd - 7) % Pow10(7), 7)
C7_SameAs(v) == IF v.fd <= 7 THEN C7_Rounded(v) ELSE [k |-> "inexact"]
\* the rounded number fits decimal(10,7): at most three integer digits
C7_Fits(v) == C7_Rounded(v).w < Pow10(3)

C8_Uncovered == {"datetimepicker", "location", "info", "bogus"}

C10_StatusKeepsReview ==
    [][ (last'.op = "Respondant.save" /\ last'.edit.status \in StatusChoices
           /\ last'.edit.review_status = Keep)
        => respondant'.review_status = respondant.review_status ]_vars

\* a flagged Respondant was saved with status terminate
C10_Witness ==
    /\ last.op = "Respondant.save" /\ last.edit = Edit(JStr(<<"terminate">>), Keep)
    /\ respondant.status = JStr(<<"terminate">>)
    /\ respondant.review_status = REVIEW_STATE_FLAGGED

\* C11: once the status of a Respondant is complete or terminate, no
\* operation of the core (Respondant.save without a status edit of the
\* caller, Response creation and its normalization, a later Response save,
\* export-row regeneration) changes it.
C11_StatusTerminal ==
    [][ (respondant.status \in StatusChoices
           /\ ~(last'.op = "Respondant.save" /\ last'.edit.status # Keep))
        => respondant'.status = respondant.status ]_vars

\* C12: when a Respondant.save returns, locations equals the number of
\* Location rows of the Respondant, csv_row is set, and the json_data of the
\* export row is the serialization of the flat mapping of the Respondant as
\* stored; an export row that exists is kept.
C12_SaveRecomputes ==
    (last.op = "Respondant.save" /\ last.err = "none") =>
        /\ respondant.saved
        /\ respondant.locations = JInt(Len(locations))
        /\ respondant.csv_row = 1
        /\ RespondantFlatDict(DB, respondant).err = "none"
        /\ json_data = Dumps(RespondantFlatDict(DB, respondant).flat)

\* a Respondant with a Location row and a Response was saved by a caller
C12_Witness ==
    /\ last.op = "Respondant.save" /\ last.err = "none"
    /\ Len(locations) = 1
    /\ respondant.locations = JInt(1)
    /\ Len(responses) = 2
    /\ Cardinality(DOMAIN json_data.of) >= 2

\* the Response has no MultiAnswer, GridAnswer or Location row
C13_NoChildren(rid) ==
    MultiOf(rid) = <<>> /\ GridOf(rid) = <<>> /\ LocationsOf(rid) = <<>>

C14_ScalarPassThrough ==
    (Created /\ New.type \in {"text", "textarea", "timepicker"} \cup SelectTypes
       /\ Payload.k \in {"str", "num", "bool"}) =>
        /\ last.err = "none"
        /\ New.answer = ToText(Payload)
        /\ C13_NoChildren(last.rid)

\* the row-answers are objects whose cells, where the column key is there,
\* are values the column takes: a number for a single-valued column, a
\* sequence for a multi-select column
C15_CellsFit(v, cols) ==
    /\ v.k = "list"
    /\ \A i \in 1..Len(v.items) :
         /\ v.items[i].k = "row"
         /\ \A j \in 1..Len(cols) :
              LET key == DropHyphens(cols[j].label)
              IN  key \in DOMAIN v.items[i].cells =>
                     IF cols[j].type = "multi-select"
                     THEN v.items[i].cells[key].k = "list"
                     ELSE ToDecimal(v.items[i].cells[key], NumberMaxDigits,
                                    NumberDecimalPlaces).err = "none"
\* the number of GridAnswer rows of the cells whose column key is there
RECURSIVE C15_Expected(_, _, _, _)
C15_Expected(rows, cols, i, j) ==
    IF i > Len(rows) THEN 0
    ELSE IF j > Len(cols) THEN C15_Expected(rows, cols, i + 1, 1)
    ELSE (IF DropHyphens(cols[j].label) \notin DOMAIN rows[i].cells THEN 0
          ELSE IF cols[j].type = "multi-select"
          THEN Len(rows[i].cells[DropHyphens(cols[j].label)].items)
          ELSE 1) + C15_Expected(rows, cols, i, j + 1)

\* C15: in a grid normalization a cell whose column key is missing from the
\* row-answer fails alone: no exception escapes and the GridAnswer rows of
\* all other cells are created, for single-valued and multi-select columns
\* alike and whichever cell fails first.
C15_MissingKeyPerCell ==
    (Created /\ New.type = "grid" /\ C15_CellsFit(Payload, New.grid_cols)
       /\ ~C6_HasEveryKey(Payload, New.grid_cols)) =>
        /\ last.err = "none"
        /\ Len(GridOf(last.rid)) = C15_Expected(Payload.items, New.grid_cols, 1, 1)

\* the child rows of Response rid in the stored state db, without the
\* primary keys of the Location rows
C16_Children(db, rid) ==
    [multi |-> SelectSeq(db.multianswers, LAMBDA m : m.response = rid),
     grid |-> SelectSeq(db.gridanswers, LAMBDA g : g.response = rid),
     points |-> LET locs == SelectSeq(db.locations, LAMBDA l : l.response = rid)
                IN  [i \in 1..Len(locs) |->
                       [lat |-> locs[i].lat, lng |-> locs[i].lng,
                        respondant |-> locs[i].respondant,
                        answers |-> [a \in 1..Len(SelectSeq(db.locanswers,
                                            LAMBDA x : x.location = locs[i].id)) |->
                            [answer |-> SelectSeq(db.locanswers,
                                            LAMBDA x : x.location = locs[i].id)[a].answer,
                             label |-> SelectSeq(db.locanswers,
                                            LAMBDA x : x.location = locs[i].id)[a].label]]]]]
\* the rows of the four child tables that belong to other Responses than rid
C16_Others(db, rid) ==
    LET mine == {l.id : l \in {db.locations[i] : i \in
                    {i \in 1..Len(db.locations) : db.locations[i].response = rid}}}
    IN  [multi |-> SelectSeq(db.multianswers, LAMBDA m : m.response # rid),
         grid |-> SelectSeq(db.gridanswers, LAMBDA g : g.response # rid),
         locations |-> SelectSeq(db.locations, LAMBDA l : l.response # rid),
         locanswers |-> SelectSeq(db.locanswers, LAMBDA a : a.location \notin mine)]

\* C16: a further save_related pass on a Response with the same payload
\* leaves its MultiAnswer, GridAnswer and Location/LocationAnswer rows the
\* rows derived from the payload (the rows of the pass before, with no
\* duplicate and no leftover), and leaves the child rows of the other
\* Responses as they were.
C16_PassReplacesChildren ==
    [][ last'.op = "Response.save_related" =>
          /\ C16_Children(DB', last'.rid) = C16_Children(DB, last'.rid)
          /\ C16_Others(DB', last'.rid) = C16_Others(DB, last'.rid)
          /\ responses'[last'.rid].answer_raw = responses[last'.rid].answer_raw ]_vars

\* a multi-select Response of two options after its third pass, next to a
\* Response with two Location rows
C16_Witness ==
    /\ last.op = "Response.save_related" /\ last.err = "none"
    /\ New.type = "multi-select"
    /\ Len(normLog[last.rid]) = 3
    /\ Len(MultiOf(last.rid)) = 2
    /\ Len(locations) = 2

\* C17: between operations the stored locations field of the Respondant
\* equals the number of Location rows that reference it, also right after a
\* map-multipoint or pennies Response was created without an error,
\* whatever its slug.
C17_LocationsCount ==
    (respondant.saved /\ last.err = "none") =>
        respondant.locations =
            JInt(Len(SelectSeq(locations, LAMBDA l : l.respondant = 1)))

\* C18: Respondant.generate_flat_dict returns a mapping without raising in
\* every reachable state, also with Responses whose answer_raw is empty,
\* so a Respondant.save of a caller never fails in the export regeneration.
C18_FlattenTotal ==
    /\ last.op = "flatten" => last.flat.err = "none"
    /\ last.op = "Respondant.save" => last.err = "none"

====
